---- MODULE Spec2Model ----
(***************************************************************************)
(* A model of the chat turn of the agentic RAG API: bearer authentication, *)
(* session resolution, context building, the agent run, persistence of the *)
(* turn in the session/message ledger, for POST /chat (execute_agent) and  *)
(* POST /chat/stream (the generate_stream generator).                      *)
(*                                                                         *)
(* Every await on the ledger is one step whose outcome is "ok" or "fail"   *)
(* (the query raises); the agent run returns or raises; the caller of a    *)
(* stream may disconnect at any suspension point of the generator.         *)
(***************************************************************************)
EXTENDS Integers, Sequences, FiniteSets, TLC

\* ------------------------------------------------------------------ bounds
MaxTurns   == 2     \* requests served in one behaviour
MaxHistory == 12    \* messages session s1 holds at start (SpecContext)
MaxChunks  == 2     \* text deltas one streamed agent run produces
MaxTicks   == 1     \* clock advances of one timeout period
MaxParts   == 2     \* parts of the run handed to extract_tool_calls
Scale      == 10    \* a score or weight x stands for x / Scale
MaxLimit   == 3     \* the largest in-range limit a search call asks for
MaxRateLimit  == 2  \* the largest limit check_rate_limit is called with
MaxRateWindow == 2  \* the largest window, in seconds
MaxRateTime   == 4  \* the last reading of time.time()
MaxRateCalls  == 4  \* calls of check_rate_limit in one behaviour
MaxConns      == 2  \* connections of the pool that are checked out at once
MaxTenantRequests == 2  \* requests to the /v1 router in one behaviour
MaxPieces         == 3  \* pieces a string handed to sanitize_input is made of

\* ------------------------------------------------------- program constants
TimeoutMinutes     == 60    \* create_session(timeout_minutes = 60)
MaxContextMessages == 10    \* get_conversation_context(max_messages = 10)
ContextWindow      == 6     \* context[-6:]
MAX_INPUT_LENGTH   == 10000 \* int(os.getenv("MAX_INPUT_LENGTH", "10000"))

None == "None"
Turns == 1..MaxTurns
Workspaces == {"w1", "w2"}
Endpoints == {"chat", "stream"}
DbOutcomes == {"ok", "fail"}

VARIABLES
    clock,      \* CURRENT_TIMESTAMP of the database, in minutes
    sessions,   \* table sessions: id -> [workspace_id, expires_at]
    messages,   \* table messages in creation order
    turn        \* per request: its inputs, its position and its locals

\* The state of the chat turn, and the state of the other parts of the
\* program, which a chat turn's steps leave alone.
chatVars == <<clock, sessions, messages, turn>>

VARIABLES
    run_parts,  \* the parts of result.all_messages() handed to extract_tool_calls
    extracted,  \* extract_tool_calls has returned
    tools_out   \* the list extract_tool_calls returned

toolVars == <<run_parts, extracted, tools_out>>

VARIABLES
    search      \* one hybrid search call: its inputs, its position, its results

VARIABLES
    rate        \* check_rate_limit: the clock, rate_limit_store, the calls made

VARIABLES
    pool        \* db_pool: whether it is created, and its connections

VARIABLES
    n8n         \* one POST /n8n/chat request: its body, its position, its answer

VARIABLES
    tenant,     \* the multi-tenant tables and one request of the /v1 router
    oai,        \* one OpenAI-compatible stream: its position and its chunks
    san         \* one call of sanitize_input on a string

apiVars == <<tenant, oai, san>>

others == <<toolVars, search, rate, pool, n8n, apiVars>>

vars == <<chatVars, others>>

\* ---------------------------------------------------------------- helpers
Last(s, n) == IF Len(s) <= n THEN s ELSE SubSeq(s, Len(s) - n + 1, Len(s))
First(s, n) == IF Len(s) <= n THEN s ELSE SubSeq(s, 1, n)

\* The credentials a request can carry; one of them is not ASCII.
NonAsciiStrings == {"k(e-acute)y"}
Credentials == {None, "secret-key", "wrong-key", "k(e-acute)y"}
IsAscii(s) == s \notin NonAsciiStrings

\* The session ids a request can carry: none, a well-formed uuid the table
\* does not hold, a string that is no uuid, or the id of a stored session.
UnknownUuid == "u0"
MalformedId == "not-a-uuid"
IsUuid(s) == s # MalformedId
SessionInputs == {None, UnknownUuid, MalformedId} \cup DOMAIN sessions
WorkspaceInputs == {None, "w2"}

\* ------------------------------------------------------------ security.py
\* The configuration read from the environment when the module is loaded:
\* API_KEY_REQUIRED defaults to "true"; an API key is configured.
API_KEY_REQUIRED == TRUE
API_KEY == "secret-key"

\* hmac.compare_digest on two str: a TypeError unless both are ASCII.
compare_digest(a, b) ==
    IF ~IsAscii(a) \/ ~IsAscii(b) THEN "TypeError"
    ELSE IF a = b THEN "equal" ELSE "different"

verify_api_key(credentials) ==
    IF ~API_KEY_REQUIRED
    THEN [status |-> 200, detail |-> "not_required"]
    ELSE IF API_KEY = None
    THEN [status |-> 500, detail |-> "Server configuration error - API key not set"]
    ELSE IF credentials = None
    THEN [status |-> 401, detail |-> "Missing API key"]
    ELSE LET cmp == compare_digest(credentials, API_KEY)
         IN  IF cmp = "TypeError"
             THEN [status |-> 500, detail |-> "Internal Server Error"]
             ELSE IF cmp = "different"
             THEN [status |-> 401, detail |-> "Invalid API key"]
             ELSE [status |-> 200, detail |-> credentials]

\* ------------------------------------------------------------ db_utils.py
\* get_session without the expires_at test of its WHERE clause.
SessionRowMatchesAnyAge(session_id) == session_id \in DOMAIN sessions

\* The WHERE clause of get_session: the row exists and is not expired.
SessionRowMatches(session_id) ==
    /\ session_id \in DOMAIN sessions
    /\ sessions[session_id].expires_at > clock

\* The id the database gives to the next sessions row.
NewSessionId == "s" \o ToString(Cardinality(DOMAIN sessions) + 1)

\* INSERT INTO sessions ... RETURNING id
InsertSession(workspace_id) ==
    sessions' = [id \in DOMAIN sessions \cup {NewSessionId} |->
                    IF id \in DOMAIN sessions THEN sessions[id]
                    ELSE [workspace_id |-> workspace_id,
                          expires_at |-> clock + TimeoutMinutes]]

\* SELECT workspace_id FROM sessions WHERE id = $1 (NULL without a row).
SessionWorkspace(session_id) ==
    IF session_id \in DOMAIN sessions THEN sessions[session_id].workspace_id
    ELSE None

\* add_message: the row INSERT INTO messages appends.
MessageRow(t, session_id, role, content, metadata) ==
    [session_id |-> session_id, workspace_id |-> SessionWorkspace(session_id),
     role |-> role, content |-> content, metadata |-> metadata, turn |-> t]

\* An insert that puts the row in front of the rows stored before it.
add_message_at_front(t, session_id, role, content, metadata) ==
    messages' = <<MessageRow(t, session_id, role, content, metadata)>> \o messages

add_message(t, session_id, role, content, metadata) ==
    messages' = Append(messages, MessageRow(t, session_id, role, content, metadata))

SessionLog(session_id) ==
    SelectSeq(messages, LAMBDA m : m.session_id = session_id)

\* get_session_messages: ORDER BY created_at, then LIMIT when limit is set.
get_session_messages(session_id, limit) ==
    IF limit # 0 THEN First(SessionLog(session_id), limit)
    ELSE SessionLog(session_id)

\* ------------------------------------------------------------------ api.py
get_conversation_context(session_id) ==
    LET rows == get_session_messages(session_id, MaxContextMessages)
    IN  [i \in 1..Len(rows) |-> [role |-> rows[i].role, content |-> rows[i].content]]

\* The lines of context_str: one "role: content" line per message of
\* context[-6:]; no "Previous conversation" part when the context is empty.
build_prompt(message, context) ==
    LET shown == Last(context, ContextWindow)
    IN  [previous |-> [i \in 1..Len(shown) |-> <<shown[i].role, ": ", shown[i].content>>],
         question |-> message]

\* --- extract_tool_calls
\* json.loads: the decoded value with its Python type, or JSONDecodeError.
\* A mapping is the set of its <<key, value>> items.
json_loads(s) ==
    IF s = "{\"query\": \"x\"}"
    THEN [raised |-> FALSE, type |-> "dict", value |-> {<<"query", "x">>}]
    ELSE IF s = "[1]"
    THEN [raised |-> FALSE, type |-> "list", value |-> {<<"0", "1">>}]
    ELSE [raised |-> TRUE, type |-> "JSONDecodeError", value |-> {}]

\* The values part.args can have: None, a native mapping, or a str that
\* holds a JSON object, a JSON value that is no object, or no JSON at all.
PartArgs ==
    [none   |-> [type |-> "NoneType", value |-> {}],
     dict   |-> [type |-> "dict", value |-> {<<"query", "y">>}],
     object |-> [type |-> "str", value |-> "{\"query\": \"x\"}"],
     array  |-> [type |-> "str", value |-> "[1]"],
     broken |-> [type |-> "str", value |-> "{\"query\": "]]

\* part.args denotes a mapping: none at all, a native mapping, or the text
\* of a JSON object.
DenotesMapping(args) == args \in {PartArgs.none, PartArgs.dict, PartArgs.object}

\* The parts of the messages of a run, in order of occurrence. A part is a
\* ToolCallPart or another part (a text part); args_as_dict is absent from
\* the part's class, raises, or returns the mapping the part denotes.
RunParts ==
    {p \in [part_kind : {"ToolCallPart", "TextPart"},
            tool_name : {"hybrid_search"},
            args : {PartArgs[k] : k \in DOMAIN PartArgs},
            args_as_dict : {"absent", "raises", "returns"},
            tool_call_id : {"", "call_1"}] :
        /\ p.part_kind = "TextPart" =>
              p.args = PartArgs.none /\ p.args_as_dict = "absent" /\ p.tool_call_id = ""
        /\ p.args_as_dict = "returns" => DenotesMapping(p.args)}

\* tool_args after the isinstance tests on part.args (api.py 239-252).
args_from_field(args) ==
    IF args.type = "str"
    THEN LET decoded == json_loads(args.value)
         IN  IF decoded.raised THEN [type |-> "dict", value |-> {}]
             ELSE [type |-> decoded.type, value |-> decoded.value]
    ELSE IF args.type = "dict" THEN args
    ELSE [type |-> "dict", value |-> {}]

\* The mapping a part denotes, as part.args_as_dict() returns it.
args_as_dict(args) ==
    IF args.type = "str" THEN
        [type |-> "dict", value |-> json_loads(args.value).value]
    ELSE [type |-> "dict", value |-> args.value]

\* tool_args once args_as_dict was tried (api.py 255-260).
tool_args_of(part) ==
    IF part.args_as_dict = "returns" THEN args_as_dict(part.args)
    ELSE args_from_field(part.args)

\* ToolCall(**tool_call_data) validates: args must be a mapping.
ToolCallValid(tool_args) == tool_args.type = "dict"

\* The part yields a ToolCall: it is a ToolCallPart and building its
\* ToolCall raises nothing (else: except Exception ... continue).
PartExtracted(part) ==
    part.part_kind = "ToolCallPart" /\ ToolCallValid(tool_args_of(part))

ToolCallOf(part) ==
    [tool_name |-> part.tool_name,
     args |-> tool_args_of(part).value,
     tool_call_id |-> IF part.tool_call_id # "" THEN part.tool_call_id ELSE None]

\* extract_tool_calls: the ToolCalls of the parts, in order of occurrence.
extract_tool_calls(parts) ==
    LET kept == SelectSeq(parts, PartExtracted)
    IN  [i \in 1..Len(kept) |-> ToolCallOf(kept[i])]

\* The parts an agent run of a chat turn can hold: none, or one tool call.
AgentParts ==
    {<<>>,
     <<[part_kind |-> "ToolCallPart", tool_name |-> "hybrid_search",
        args |-> PartArgs.object, args_as_dict |-> "returns", tool_call_id |-> "call_1"]>>}

\* --- hybrid search
\* The chunks of the workspace, by identifier, and the signals a chunk can
\* have for a query: a vector similarity v and a text relevance t, each a
\* score in 0..Scale or Absent (the chunk is not in that candidate set).
Chunks == {1, 2, 3}
Absent == -1
Candidates == [Chunks -> [v : {Absent, 2, 8}, t : {Absent, 2, 8}]]

\* The limits and text weights a call can carry, in and out of contract.
MaxRequestLimit == 50
LimitInputs == (-1 .. MaxLimit) \cup {MaxRequestLimit + 1}
WeightInputs == {-5, 0, 3, 5, Scale, Scale + 5}
DefaultTextWeight == (3 * Scale) \div 10

\* The hybrid ranker. A combined score x stands for x / (Scale * Scale).
Coalesce(x) == IF x = Absent THEN 0 ELSE x

Clamp(x, lo, hi) == IF x < lo THEN lo ELSE IF x > hi THEN hi ELSE x

CombinedScore(v, t, text_weight) ==
    Clamp((Scale - text_weight) * v + text_weight * t, 0, Scale * Scale)

\* A ranker that joins the two candidate sets on the chunk.
IsCandidateInBoth(signal) == signal.v # Absent /\ signal.t # Absent

\* A chunk is a candidate when it is in either candidate set.
IsCandidate(signal) == signal.v # Absent \/ signal.t # Absent

RankedRow(cands, c, text_weight) ==
    [chunk_id |-> c,
     combined_score |-> CombinedScore(Coalesce(cands[c].v), Coalesce(cands[c].t),
                                      text_weight),
     vector_similarity |-> Coalesce(cands[c].v),
     text_similarity |-> Coalesce(cands[c].t)]

\* An ordering by combined score alone, ties by chunk identifier.
RankBeforeByScoreOnly(a, b) ==
    \/ a.combined_score > b.combined_score
    \/ a.combined_score = b.combined_score /\ a.chunk_id < b.chunk_id

\* Descending combined score, then descending v, then chunk identifier.
RankBefore(a, b) ==
    \/ a.combined_score > b.combined_score
    \/ /\ a.combined_score = b.combined_score
       /\ \/ a.vector_similarity > b.vector_similarity
          \/ /\ a.vector_similarity = b.vector_similarity
             /\ a.chunk_id < b.chunk_id

RECURSIVE RankOrder(_)
RankOrder(rows) ==
    IF rows = {} THEN <<>>
    ELSE LET best == CHOOSE a \in rows : \A b \in rows \ {a} : RankBefore(a, b)
         IN  <<best>> \o RankOrder(rows \ {best})

InvalidParameter(limit, text_weight) ==
    text_weight < 0 \/ text_weight > Scale \/ limit < 1

\* The storage function hybrid_search($1::vector, $2, $3::uuid, $4, $5).
sql_hybrid_search(cands, limit, text_weight) ==
    IF InvalidParameter(limit, text_weight)
    THEN [raised |-> "InvalidParameter", rows |-> <<>>]
    ELSE [raised |-> None,
          rows |-> First(RankOrder({RankedRow(cands, c, text_weight) :
                                       c \in {d \in Chunks : IsCandidate(cands[d])}}),
                         limit)]

\* A row mapping that reports the vector similarity as the score.
HybridRowVectorScore(row) ==
    [chunk_id |-> row.chunk_id, combined_score |-> row.vector_similarity,
     vector_similarity |-> row.vector_similarity,
     text_similarity |-> row.text_similarity]

\* The dict db_utils.hybrid_search builds from one row of the result.
HybridRow(row) ==
    [chunk_id |-> row.chunk_id, combined_score |-> row.combined_score,
     vector_similarity |-> row.vector_similarity,
     text_similarity |-> row.text_similarity]

\* db_utils.hybrid_search: one query on one connection; what the query
\* raises it raises, what the query returns it returns row by row.
hybrid_search(cands, limit, text_weight, db) ==
    IF db = "fail" THEN [raised |-> "db", rows |-> <<>>]
    ELSE LET res == sql_hybrid_search(cands, limit, text_weight)
         IN  [raised |-> res.raised,
              rows |-> [i \in 1..Len(res.rows) |-> HybridRow(res.rows[i])]]

\* ChunkResult.validate_score: max(0.0, min(1.0, v)).
validate_score(v) == Clamp(v, 0, Scale * Scale)

ChunkResult(row) ==
    [chunk_id |-> row.chunk_id, score |-> validate_score(row.combined_score)]

IdleSearch ==
    [pc |-> "idle", via |-> None, limit |-> 0, text_weight |-> 0,
     cands |-> [c \in Chunks |-> [v |-> Absent, t |-> Absent]],
     queries |-> 0, db |-> None, raised |-> None, absorbed |-> FALSE,
     rows |-> <<>>, results |-> <<>>, status |-> 0]

\* --- check_rate_limit
Identifiers == {"ip:a", "ip:b"}

\* The entries of one identifier newer than the cutoff.
clean_old_entries(store, identifier, cutoff) ==
    IF identifier \in DOMAIN store
    THEN SelectSeq(store[identifier], LAMBDA timestamp : timestamp > cutoff)
    ELSE <<>>

\* A test that lets one call more through.
limit_exceeded_off_by_one(entries, limit) == Len(entries) > limit

\* if len(rate_limit_store[identifier]) >= limit: return False
limit_exceeded(entries, limit) == Len(entries) >= limit

\* A limiter that records the time of every call, refused ones included.
check_rate_limit_recording_refused(store, identifier, limit, window, now) ==
    LET entries == clean_old_entries(store, identifier, now - window)
        recorded == [id \in DOMAIN store \cup {identifier} |->
                        IF id = identifier THEN Append(entries, now) ELSE store[id]]
    IN  [answer |-> ~limit_exceeded(entries, limit), store |-> recorded]

\* check_rate_limit: the answer and the store it leaves.
check_rate_limit(store, identifier, limit, window, now) ==
    LET cutoff == now - window
        entries == clean_old_entries(store, identifier, cutoff)
        cleaned == [id \in DOMAIN store \cup {identifier} |->
                       IF id = identifier THEN entries ELSE store[id]]
    IN  IF limit_exceeded(entries, limit)
        THEN [answer |-> FALSE, store |-> cleaned]
        ELSE [answer |-> TRUE,
              store |-> [cleaned EXCEPT ![identifier] = Append(@, now)]]

\* rate_limit_store = {} when the module is loaded.
IdleRate ==
    [now |-> 0, limit |-> 1, window |-> 1,
     rate_limit_store |-> [id \in {} |-> <<>>], calls |-> <<>>]

\* --- db_pool
\* The operations that check a connection out of db_pool, each with the
\* number of queries its "async with db_pool.acquire()" block awaits when
\* none of them raises and every row it looks up exists.
PoolOperations ==
    [get_session |-> 1, create_session |-> 1, add_message |-> 2,
     get_session_messages |-> 1, hybrid_search |-> 1, execute_agent |-> 1,
     validate_widget_api_key |-> 4]

\* The block is left after a query: it was the last one, it raised, or the
\* row validate_widget_api_key needs is missing (HTTPException 401, 404).
LeavesBlock(op, queries, outcome) ==
    \/ queries = PoolOperations[op]
    \/ outcome = "fail"
    \/ outcome = "no_row" /\ op = "validate_widget_api_key"

FreeConn == [op |-> None, queries |-> 0, pc |-> "free"]

\* self.pool is None (created is FALSE); made counts the pools create_pool
\* has returned since the last close(), overwritten tells that self.pool
\* was replaced while it held a pool that was not closed.
IdlePool ==
    [created |-> FALSE, made |-> 0, overwritten |-> FALSE,
     conns |-> [c \in 1..MaxConns |-> FreeConn]]

\* --- n8n_chat_webhook
\* A field of the JSON body is Missing or holds a string; a container
\* (data, body, input) is missing, holds something that is no object, or
\* holds an object with its own chatInput and message fields.
Missing == "<missing>"

Nested(kind, chatInput, message) ==
    [kind |-> kind, chatInput |-> chatInput, message |-> message]

NestedValues ==
    {Nested("missing", Missing, Missing), Nested("str", Missing, Missing)}
    \cup {Nested("dict", c, m) : c \in {Missing, "", "nested chatInput"},
                                 m \in {Missing, "nested message"}}

N8nBodies ==
    [chatInput : {Missing, "", " ", "top chatInput"},
     message : {Missing, "", "top message"},
     question : {Missing, "top question"},
     data : NestedValues, body : NestedValues, input : NestedValues,
     sessionId : {Missing, "s1"}]

\* sanitize_input on the strings of the bodies: no dangerous pattern occurs
\* in them, so what is left of it is strip().
sanitize_str(str) == IF str = " " THEN "" ELSE str

\* sanitize_input on a body: every value, at every depth; keys are kept.
sanitize_input(data) ==
    LET nested(n) == [n EXCEPT !.chatInput = sanitize_str(@),
                               !.message = sanitize_str(@)]
    IN  [data EXCEPT !.chatInput = sanitize_str(@), !.message = sanitize_str(@),
                     !.question = sanitize_str(@), !.data = nested(@),
                     !.body = nested(@), !.input = nested(@)]

\* The first container, in the order given, that is an object holding
\* chatInput or message; <<>> when there is none.
first_nested(containers) ==
    SelectSeq(containers,
              LAMBDA n : n.kind = "dict" /\ (n.chatInput # Missing \/ n.message # Missing))

\* An extraction that looks at message before chatInput.
n8n_message_message_first(body) ==
    IF body.message # Missing THEN body.message
    ELSE IF body.chatInput # Missing THEN body.chatInput
    ELSE IF body.question # Missing THEN body.question
    ELSE LET found == first_nested(<<body.data, body.body, body.input>>)
         IN  IF found = <<>> THEN Missing
             ELSE IF found[1].chatInput # Missing THEN found[1].chatInput
             ELSE found[1].message

\* The message n8n_chat_webhook extracts from the sanitized body (Missing
\* stands for None).
n8n_message(body) ==
    IF body.chatInput # Missing THEN body.chatInput
    ELSE IF body.message # Missing THEN body.message
    ELSE IF body.question # Missing THEN body.question
    ELSE LET found == first_nested(<<body.data, body.body, body.input>>)
         IN  IF found = <<>> THEN Missing
             ELSE IF found[1].chatInput # Missing THEN found[1].chatInput
             ELSE found[1].message

\* not message
Falsy(message) == message \in {Missing, ""}

IdleN8n ==
    [pc |-> "idle",
     body |-> [chatInput |-> Missing, message |-> Missing, question |-> Missing,
               data |-> Nested("missing", Missing, Missing),
               body |-> Nested("missing", Missing, Missing),
               input |-> Nested("missing", Missing, Missing),
               sessionId |-> Missing],
     message |-> Missing, session_id |-> Missing, created |-> FALSE,
     started_at |-> 0, executed |-> <<>>, status |-> 0, answer |-> None]

\* --- the /v1 router (api_multi_tenant.py)
\* $1::uuid and id::text: a uuid is stored, compared and returned in its
\* canonical lower-case text, however the caller spelled it.
uuid_text(id) == IF id = "W1" THEN "w1" ELSE id

TenantOps ==
    [agent |-> {"get_agent_endpoint", "update_agent_endpoint", "delete_agent_endpoint"},
     create |-> {"create_workspace_endpoint", "create_agent_endpoint",
                 "create_api_key_endpoint"}]

\* get_agent: the row WHERE id = $1::uuid as a dict, or None.
get_agent(agents, agent_id) ==
    IF uuid_text(agent_id) \in DOMAIN agents
    THEN [found |-> TRUE, id |-> uuid_text(agent_id),
          workspace_id |-> agents[uuid_text(agent_id)].workspace_id,
          name |-> agents[uuid_text(agent_id)].name]
    ELSE [found |-> FALSE, id |-> None, workspace_id |-> None, name |-> None]

\* A handler that does not compare the agent's workspace with the path.
agent_in_any_workspace(agent, workspace_id) == TRUE

\* not (agent["workspace_id"] != workspace_id): two str are compared.
agent_in_workspace(agent, workspace_id) == agent.workspace_id = workspace_id

\* get_organization / get_workspace of the create endpoints: the parent row
\* is stored.
parent_found(t, req) ==
    IF req.op = "create_workspace_endpoint"
    THEN uuid_text(req.org_id) \in t.organizations
    ELSE uuid_text(req.workspace_id) \in DOMAIN t.workspaces

\* except Exception as e of the create endpoints: whatever was raised in
\* the try block, an HTTPException included, is answered 500.
create_endpoint_except(e) ==
    [status |-> 500, detail |-> <<"Failed to create: ", e>>]

IdleRequest ==
    [op |-> None, org_id |-> None, workspace_id |-> None, agent_id |-> None,
     updates |-> {}, pc |-> "idle", status |-> 0, detail |-> <<>>,
     agent |-> get_agent(<<>>, None), faults |-> {}]

StoredAgents ==
    [a \in {"a1", "a2"} |->
        [workspace_id |-> IF a = "a1" THEN "w1" ELSE "w2", name |-> "n0"]]

IdleTenant ==
    [organizations |-> {"o1"},
     workspaces |-> [w \in {"w1", "w2"} |-> "o1"],
     agents |-> StoredAgents,
     api_keys |-> {},
     served |-> 0, agents_before |-> StoredAgents,
     req |-> IdleRequest]

\* --- openai_chat_stream
\* One "data: ..." line of the stream: a chunk, the model_dump of an
\* OpenAIStreamResponse with one choice, or the [DONE] line. A delta is the
\* set of its <<key, value>> items.
OpenAIStreamResponse(model, delta, finish_reason) ==
    [data |-> "chunk", model |-> model, delta |-> delta,
     finish_reason |-> finish_reason]

\* An except clause whose chunk leaves finish_reason null.
openai_error_chunk_unfinished(model, e) ==
    OpenAIStreamResponse(model, {<<"content", "Error: " \o e>>}, None)

\* The chunk of the except clause: the error text, finish_reason "stop".
openai_error_chunk(model, e) ==
    OpenAIStreamResponse(model, {<<"content", "Error: " \o e>>}, "stop")

IdleOai == [pc |-> "idle", model |-> None, lines |-> <<>>, full_response |-> <<>>]

\* --- sanitize_input on a str, character by character
\* A str is the sequence of its characters. The patterns the str branch
\* removes, in the order of its list.
dangerous_patterns ==
    <<<<"<", "s", "c", "r", "i", "p", "t">>,
      <<"<", "/", "s", "c", "r", "i", "p", "t", ">">>,
      <<"j", "a", "v", "a", "s", "c", "r", "i", "p", "t", ":">>,
      <<"v", "b", "s", "c", "r", "i", "p", "t", ":">>,
      <<"o", "n", "l", "o", "a", "d", "=">>,
      <<"o", "n", "e", "r", "r", "o", "r", "=">>,
      <<"o", "n", "c", "l", "i", "c", "k", "=">>,
      <<"o", "n", "m", "o", "u", "s", "e", "o", "v", "e", "r", "=">>,
      <<"<", "i", "f", "r", "a", "m", "e">>,
      <<"<", "/", "i", "f", "r", "a", "m", "e", ">">>,
      <<"<", "o", "b", "j", "e", "c", "t">>,
      <<"<", "/", "o", "b", "j", "e", "c", "t", ">">>,
      <<"<", "e", "m", "b", "e", "d">>,
      <<"<", "/", "e", "m", "b", "e", "d", ">">>,
      <<"<", "l", "i", "n", "k">>,
      <<"<", "m", "e", "t", "a">>>>

\* str.upper(): every lower-case letter by its capital, the rest kept.
upper(str) ==
    LET lower_case == <<"a", "b", "c", "d", "e", "f", "g", "h", "i", "j", "k", "l", "m", "n", "o", "p", "q", "r", "s", "t", "u", "v", "w", "x", "y", "z">>
        capitals == <<"A", "B", "C", "D", "E", "F", "G", "H", "I", "J", "K", "L", "M", "N", "O", "P", "Q", "R", "S", "T", "U", "V", "W", "X", "Y", "Z">>
    IN  [i \in 1..Len(str) |->
            IF \E k \in 1..26 : lower_case[k] = str[i]
            THEN capitals[CHOOSE k \in 1..26 : lower_case[k] = str[i]]
            ELSE str[i]]

\* str.replace(old, ""): the occurrences of old found from left to right,
\* none overlapping another, are left out of one scan of the str.
RECURSIVE replace(_, _)
replace(str, old) ==
    IF Len(str) < Len(old) THEN str
    ELSE IF SubSeq(str, 1, Len(old)) = old
    THEN replace(SubSeq(str, Len(old) + 1, Len(str)), old)
    ELSE <<str[1]>> \o replace(Tail(str), old)

\* The loop over dangerous_patterns from the i-th pattern on: each pattern
\* and then its upper-case spelling is replaced in what the patterns
\* before it left.
RECURSIVE remove_patterns(_, _)
remove_patterns(sanitized, i) ==
    IF i > Len(dangerous_patterns) THEN sanitized
    ELSE remove_patterns(replace(replace(sanitized, dangerous_patterns[i]),
                                 upper(dangerous_patterns[i])),
                         i + 1)

\* sanitize_input(data) for a str: the patterns are removed, the result is
\* cut to MAX_INPUT_LENGTH characters and stripped of surrounding blanks.
sanitize_text(data) ==
    LET removed == remove_patterns(data, 1)
        sanitized == IF Len(removed) > MAX_INPUT_LENGTH
                     THEN SubSeq(removed, 1, MAX_INPUT_LENGTH) ELSE removed
        inked == {i \in 1..Len(sanitized) : sanitized[i] # " "}
    IN  IF inked = {} THEN <<>>
        ELSE SubSeq(sanitized,
                    CHOOSE i \in inked : \A j \in inked : i <= j,
                    CHOOSE i \in inked : \A j \in inked : i >= j)

IdleSan == [pc |-> "idle", data |-> <<>>, once |-> <<>>, twice |-> <<>>]

error_response(e) ==
    <<"I encountered an error while processing your request: ", e>>

stream_error_content(e) == <<"Stream error: ", e>>

\* ------------------------------------------------------------------- state
Terminal == {"done", "cancelled"}

IdleTurn ==
    [pc |-> "idle", endpoint |-> None, credentials |-> None,
     message |-> <<>>, session_id |-> None, workspace_id |-> None,
     sid |-> None,
     deps |-> [made |-> FALSE, session_id |-> None, workspace_id |-> None],
     prompt |-> [previous |-> <<>>, question |-> <<>>],
     response |-> <<>>, tools_used |-> <<>>,
     in_handler |-> FALSE, exec |-> "none",
     events |-> <<>>, full_response |-> <<>>,
     status |-> 0, body |-> [message |-> <<>>, session_id |-> None, tools_used |-> <<>>],
     faults |-> {}, seen |-> <<>>,
     answered |-> FALSE, answer |-> <<>>, answer_tools |-> <<>>]

PriorLog(n) ==
    [i \in 1..n |->
        [session_id |-> "s1", workspace_id |-> "w1",
         role |-> IF i % 2 = 1 THEN "user" ELSE "assistant",
         content |-> <<"h" \o ToString(i)>>, metadata |-> {}, turn |-> 0]]

InitWith(maxPrior) ==
    /\ clock = 0
    /\ sessions = [id \in {"s1"} |->
                      [workspace_id |-> "w1", expires_at |-> TimeoutMinutes]]
    /\ \E n \in 0..maxPrior : messages = PriorLog(n)
    /\ turn = [t \in Turns |-> IdleTurn]

\* No extraction is under way.
ToolsIdle == run_parts = <<>> /\ extracted = FALSE /\ tools_out = <<>>

\* No request of the /v1 router, no OpenAI stream, no sanitize_input call.
ApiIdle == tenant = IdleTenant /\ oai = IdleOai /\ san = IdleSan

OthersIdle == ToolsIdle /\ search = IdleSearch /\ rate = IdleRate /\ pool = IdlePool
              /\ n8n = IdleN8n /\ ApiIdle
    /\ ApiIdle

Init == InitWith(0) /\ OthersIdle

Set(t, r) == turn' = [turn EXCEPT ![t] = r]

\* The locals of a turn are gone once its response is complete.
RetiredTurn == [IdleTurn EXCEPT !.pc = "retired"]

\* Turn t starts with record r; the turns before it are over.
Start(t, r) ==
    turn' = [u \in Turns |-> IF u = t THEN r ELSE IF u < t THEN RetiredTurn ELSE turn[u]]

\* The database clock advances by one timeout period.
Tick ==
    /\ clock < MaxTicks * TimeoutMinutes
    /\ clock' = clock + TimeoutMinutes
    /\ UNCHANGED <<sessions, messages, turn, others>>


\* ------------------------------------------------------- control transfers
\* An exception that reaches the endpoint's own except clause:
\* raise HTTPException(status_code=500, detail=str(e)).
EndpointError(r, e) ==
    [r EXCEPT !.pc = "done", !.status = 500, !.faults = @ \cup {e},
              !.exec = IF @ = "running" THEN "raised" ELSE @]

\* The except clause of execute_agent: the error text replaces the answer
\* and the turn is saved again from its user message.
ExecuteAgentHandler(r, e) ==
    [r EXCEPT !.pc = "save_user", !.in_handler = TRUE, !.faults = @ \cup {e},
              !.response = error_response(e), !.tools_used = <<>>]

\* An except clause that falls through to the end event.
stream_error_events_then_end(e) ==
    <<[type |-> "error", content |-> stream_error_content(e)], [type |-> "end"]>>

\* What generate_stream yields from its except clause.
stream_error_events(e) == <<[type |-> "error", content |-> stream_error_content(e)]>>

StreamError(r, e) ==
    [r EXCEPT !.pc = "done", !.faults = @ \cup {e},
              !.events = @ \o stream_error_events(e)]

\* execute_agent raises to n8n_chat_webhook, whose except Exception
\* returns an error body.
N8nError(r, e) ==
    [r EXCEPT !.pc = "done", !.status = 200, !.faults = @ \cup {e}, !.exec = "raised"]

\* An exception raised inside the turn, at the place the turn is at.
Raise(r, e) ==
    IF r.endpoint = "stream" THEN StreamError(r, e)
    ELSE IF ~r.in_handler THEN ExecuteAgentHandler(r, e)
    ELSE IF r.endpoint = "n8n" THEN N8nError(r, e)
    ELSE EndpointError(r, e)

\* After get_or_create_session: /chat calls execute_agent, /chat/stream
\* returns the StreamingResponse, whose body the generator produces.
Resolved(r, session_id) ==
    IF r.endpoint = "chat"
    THEN [r EXCEPT !.sid = session_id, !.pc = "lookup_workspace", !.exec = "running"]
    ELSE [r EXCEPT !.sid = session_id, !.pc = "yield_session", !.status = 200]

\* ----------------------------------------------------------------- actions
\* A request arrives; the verify_api_key dependency runs before the handler.
\* A rejected request's body is never read.
Request(t) ==
    /\ turn[t].pc = "idle"
    /\ \A u \in Turns : u < t => turn[u].pc \in Terminal \cup {"retired"}
    /\ \E ep \in Endpoints, cred \in Credentials, sid \in SessionInputs,
          ws \in WorkspaceInputs :
         LET auth == verify_api_key(cred)
             r == [turn[t] EXCEPT !.endpoint = ep, !.credentials = cred]
         IN  IF auth.status # 200
             THEN /\ sid = None /\ ws = None
                  /\ Start(t, [r EXCEPT !.pc = "done", !.status = auth.status])
             ELSE Start(t, [r EXCEPT !.message = <<"q" \o ToString(t)>>,
                                   !.session_id = sid, !.workspace_id = ws,
                                   !.pc = IF sid # None THEN "get_session"
                                          ELSE "create_session"])
    /\ UNCHANGED <<clock, sessions, messages, others>>

\* get_or_create_session, first half: get_session(request.session_id).
GetSession(t) ==
    /\ turn[t].pc = "get_session"
    /\ \E db \in DbOutcomes :
         LET r == turn[t] IN
         IF ~IsUuid(r.session_id) THEN Set(t, EndpointError(r, "uuid"))
         ELSE IF db = "fail" THEN Set(t, EndpointError(r, "db"))
         ELSE IF SessionRowMatches(r.session_id)
         THEN Set(t, Resolved(r, r.session_id))
         ELSE Set(t, [r EXCEPT !.pc = "create_session"])
    /\ UNCHANGED <<clock, sessions, messages, others>>

\* get_or_create_session, second half: create_session(workspace_id).
CreateSession(t) ==
    /\ turn[t].pc = "create_session"
    /\ \E db \in DbOutcomes :
         LET r == turn[t] IN
         IF db = "fail"
         THEN Set(t, EndpointError(r, "db")) /\ UNCHANGED sessions
         ELSE InsertSession(r.workspace_id) /\ Set(t, Resolved(r, NewSessionId))
    /\ UNCHANGED <<clock, messages, others>>

\* execute_agent: the workspace of AgentDependencies.
LookupWorkspace(t) ==
    /\ turn[t].pc = "lookup_workspace"
    /\ \E db \in DbOutcomes :
         LET r == turn[t] IN
         IF r.workspace_id # None
         THEN Set(t, [r EXCEPT !.pc = "context",
                               !.deps = [made |-> TRUE, session_id |-> r.sid,
                                         workspace_id |-> r.workspace_id]])
         ELSE IF db = "fail" THEN Set(t, Raise(r, "db"))
         ELSE Set(t, [r EXCEPT !.pc = "context",
                               !.deps = [made |-> TRUE, session_id |-> r.sid,
                                         workspace_id |-> SessionWorkspace(r.sid)]])
    /\ UNCHANGED <<clock, sessions, messages, others>>

\* generate_stream starts: the session event, then its AgentDependencies,
\* built from session_id and user_id alone.
StreamStart(t) ==
    /\ turn[t].pc = "yield_session"
    /\ LET r == turn[t] IN
       Set(t, [r EXCEPT !.pc = "context",
                        !.events = Append(@, [type |-> "session", session_id |-> r.sid]),
                        !.deps = [made |-> TRUE, session_id |-> r.sid,
                                  workspace_id |-> None]])
    /\ UNCHANGED <<clock, sessions, messages, others>>

\* A turn that saves its user message first and reads the context after.
GetContextAfterSavingUser(t) ==
    /\ turn[t].pc = "context"
    /\ \E sid \in {turn[t].sid}, message \in {turn[t].message} :
         /\ add_message(t, sid, "user", message, {"user_id"})
         /\ Set(t, [turn[t] EXCEPT
                  !.prompt = build_prompt(message, get_conversation_context(sid)'),
                  !.seen = SessionLog(sid)',
                  !.pc = IF turn[t].endpoint = "stream" THEN "save_user" ELSE "agent"])
    /\ UNCHANGED <<clock, sessions, others>>

\* get_conversation_context and the prompt built from it.
GetContext(t) ==
    /\ turn[t].pc = "context"
    /\ \E db \in DbOutcomes :
         LET r == turn[t] IN
         IF db = "fail" THEN Set(t, Raise(r, "db"))
         ELSE Set(t, [r EXCEPT
                  !.prompt = build_prompt(r.message, get_conversation_context(r.sid)),
                  !.seen = SessionLog(r.sid),
                  !.pc = IF r.endpoint = "stream" THEN "save_user" ELSE "agent"])
    /\ UNCHANGED <<clock, sessions, messages, others>>

\* rag_agent.run: returns its answer and tool-call parts, or raises.
RunAgent(t) ==
    /\ turn[t].pc = "agent"
    /\ LET r == turn[t] IN
       \/ \E parts \in AgentParts :
            Set(t, [r EXCEPT !.pc = "save_user", !.response = <<"answer">>,
                             !.tools_used = extract_tool_calls(parts),
                             !.answered = TRUE, !.answer = <<"answer">>,
                             !.answer_tools = extract_tool_calls(parts)])
       \/ Set(t, Raise(r, "agent"))
    /\ UNCHANGED <<clock, sessions, messages, others>>

UserMetadata(r) ==
    IF r.endpoint = "stream" THEN {"user_id"}
    ELSE IF r.in_handler THEN {"error"} ELSE {"user_id", "tool_calls"}

AssistantMetadata(r) ==
    IF r.endpoint = "stream" THEN {"streamed", "tool_calls"}
    ELSE IF r.in_handler THEN {"error"} ELSE {"user_id", "tool_calls"}

\* add_message(role = "user"): of save_conversation_turn, or of the stream.
SaveUser(t) ==
    /\ turn[t].pc = "save_user"
    /\ \E db \in DbOutcomes :
         LET r == turn[t] IN
         IF db = "fail" THEN Set(t, Raise(r, "db")) /\ UNCHANGED messages
         ELSE /\ add_message(t, r.sid, "user", r.message, UserMetadata(r))
              /\ Set(t, [r EXCEPT !.pc = IF r.endpoint = "stream"
                                         THEN "stream_agent" ELSE "save_assistant"])
    /\ UNCHANGED <<clock, sessions, others>>

\* add_message(role = "assistant"); execute_agent then returns and its
\* caller answers with the response, the session id and the tools.
SaveAssistant(t) ==
    /\ turn[t].pc = "save_assistant"
    /\ \E db \in DbOutcomes :
         LET r == turn[t] IN
         IF db = "fail" THEN Set(t, Raise(r, "db")) /\ UNCHANGED messages
         ELSE IF r.endpoint # "stream"
         THEN /\ add_message(t, r.sid, "assistant", r.response, AssistantMetadata(r))
              /\ Set(t, [r EXCEPT !.pc = "done", !.exec = "returned", !.status = 200,
                                  !.body = [message |-> r.response, session_id |-> r.sid,
                                            tools_used |-> r.tools_used]])
         ELSE /\ add_message(t, r.sid, "assistant", r.full_response, AssistantMetadata(r))
              /\ Set(t, [r EXCEPT !.pc = "yield_end"])
    /\ UNCHANGED <<clock, sessions, others>>

\* A generator that sends the content of a part's start without adding it
\* to full_response.
StreamTextPartStartNotKept(t) ==
    /\ turn[t].pc = "stream_agent"
    /\ Len(turn[t].events) <= MaxChunks
    /\ LET r == turn[t]
           delta_content == "c" \o ToString(Len(r.events))
       IN  Set(t, [r EXCEPT !.events = Append(@, [type |-> "text", content |-> delta_content]),
                            !.full_response = IF Len(r.events) = 1 THEN @
                                              ELSE Append(@, delta_content)])
    /\ UNCHANGED <<clock, sessions, messages, others>>

\* rag_agent.iter: one text part or text delta of the model's answer.
StreamText(t) ==
    /\ turn[t].pc = "stream_agent"
    /\ Len(turn[t].full_response) < MaxChunks
    /\ LET r == turn[t]
           delta_content == "c" \o ToString(Len(r.full_response) + 1)
       IN  Set(t, [r EXCEPT !.events = Append(@, [type |-> "text", content |-> delta_content]),
                            !.full_response = Append(@, delta_content)])
    /\ UNCHANGED <<clock, sessions, messages, others>>

\* rag_agent.iter raises.
StreamRaise(t) ==
    /\ turn[t].pc = "stream_agent"
    /\ Set(t, Raise(turn[t], "agent"))
    /\ UNCHANGED <<clock, sessions, messages, others>>

\* What generate_stream yields for the tools it extracted.
tools_events(tools_used) ==
    IF tools_used # <<>> THEN <<[type |-> "tools", tools |-> tools_used]>> ELSE <<>>

\* The run ends: extract_tool_calls(run.result) and the tools event.
StreamFinish(t) ==
    /\ turn[t].pc = "stream_agent"
    /\ \E parts \in AgentParts :
         LET r == turn[t]
             tools_used == extract_tool_calls(parts)
         IN  Set(t, [r EXCEPT !.pc = "save_assistant", !.tools_used = tools_used,
                              !.events = @ \o tools_events(tools_used),
                              !.answered = TRUE, !.answer = r.full_response,
                              !.answer_tools = tools_used])
    /\ UNCHANGED <<clock, sessions, messages, others>>

\* The last statement of the generator's try block.
StreamEnd(t) ==
    /\ turn[t].pc = "yield_end"
    /\ Set(t, [turn[t] EXCEPT !.pc = "done", !.events = Append(@, [type |-> "end"])])
    /\ UNCHANGED <<clock, sessions, messages, others>>

\* The caller of the stream goes away: the generator is cancelled or closed
\* where it is suspended (CancelledError, GeneratorExit: no Exception).
GeneratorPcs == {"yield_session", "context", "save_user", "stream_agent",
                 "save_assistant", "yield_end"}

Disconnect(t) ==
    /\ turn[t].endpoint = "stream"
    /\ turn[t].pc \in GeneratorPcs
    /\ Set(t, [turn[t] EXCEPT !.pc = "cancelled"])
    /\ UNCHANGED <<clock, sessions, messages, others>>

TurnStep(t) ==
    \/ Request(t)
    \/ GetSession(t)
    \/ CreateSession(t)
    \/ LookupWorkspace(t)
    \/ StreamStart(t)
    \/ GetContext(t)
    \/ RunAgent(t)
    \/ SaveUser(t)
    \/ SaveAssistant(t)
    \/ StreamText(t)
    \/ StreamRaise(t)
    \/ StreamFinish(t)
    \/ StreamEnd(t)
    \/ Disconnect(t)

Next == Tick \/ \E t \in Turns : TurnStep(t)

Spec == Init /\ [][Next]_vars

\* One request on a session with a history of up to MaxHistory messages.
InitContext == InitWith(MaxHistory) /\ OthersIdle

NextContext == Tick \/ TurnStep(1)

SpecContext == InitContext /\ [][NextContext]_vars

\* No chat request has arrived.
ChatIdle == InitWith(0)

\* ------------------------------------ two concurrent turns on one session
\* Two authenticated requests name the stored session s1; neither waits
\* for the other: their handlers interleave at every await.
ConcurrentTurns == {1, 2}

ConcurrentRequest(t) ==
    /\ turn[t].pc = "idle"
    /\ \E ep \in Endpoints :
         Set(t, [turn[t] EXCEPT !.endpoint = ep, !.credentials = API_KEY,
                                !.message = <<"q" \o ToString(t)>>,
                                !.session_id = "s1", !.pc = "get_session"])
    /\ UNCHANGED <<clock, sessions, messages, others>>

SpecConcurrent ==
    Init /\ [][\E t \in ConcurrentTurns :
                  \/ ConcurrentRequest(t)
                  \/ GetSession(t)
                  \/ LookupWorkspace(t)
                  \/ StreamStart(t)
                  \/ GetContext(t)
                  \/ RunAgent(t)
                  \/ SaveUser(t)
                  \/ SaveAssistant(t)
                  \/ StreamText(t)
                  \/ StreamRaise(t)
                  \/ StreamFinish(t)
                  \/ StreamEnd(t)]_vars

\* ------------------------------------------- extract_tool_calls on its own
InitTools ==
    /\ ChatIdle
    /\ search = IdleSearch
    /\ rate = IdleRate
    /\ pool = IdlePool
    /\ n8n = IdleN8n
    /\ ApiIdle
    /\ run_parts \in UNION {[1..k -> RunParts] : k \in 0..MaxParts}
    /\ extracted = FALSE
    /\ tools_out = <<>>

\* tools_used = extract_tool_calls(result)
ExtractToolCalls ==
    /\ ~extracted
    /\ extracted' = TRUE
    /\ tools_out' = extract_tool_calls(run_parts)
    /\ UNCHANGED <<run_parts, chatVars, search, rate, pool, n8n, apiVars>>

SpecTools == InitTools /\ [][ExtractToolCalls]_vars

\* ----------------------------------------------------- hybrid search calls
\* A call arrives by POST /search/hybrid, which carries a limit only, or
\* from the agent's tool, which chooses limit and text_weight.
InitSearch ==
    /\ ChatIdle
    /\ ToolsIdle
    /\ rate = IdleRate
    /\ pool = IdlePool
    /\ n8n = IdleN8n
    /\ ApiIdle
    /\ \E via \in {"endpoint", "tool"}, limit \in LimitInputs,
          text_weight \in WeightInputs, cands \in Candidates :
         /\ via = "endpoint" => text_weight = DefaultTextWeight
         /\ search = [IdleSearch EXCEPT !.pc = IF via = "endpoint" THEN "request"
                                               ELSE "tool",
                                        !.via = via, !.limit = limit,
                                        !.text_weight = text_weight, !.cands = cands]

\* SearchRequest: limit has ge=1, le=50; a body that fails validation is
\* answered 422 and search_hybrid is not called.
SearchRequestValidate ==
    /\ search.pc = "request"
    /\ search' = IF search.limit < 1 \/ search.limit > MaxRequestLimit
                 THEN [search EXCEPT !.pc = "done", !.status = 422]
                 ELSE [search EXCEPT !.pc = "tool"]
    /\ UNCHANGED <<chatVars, toolVars, rate, pool, n8n, apiVars>>

\* hybrid_search_tool calls db_utils.hybrid_search, whose one query the
\* database answers or fails.
HybridSearchQuery ==
    /\ search.pc = "tool"
    /\ \E db \in DbOutcomes :
         LET res == hybrid_search(search.cands, search.limit, search.text_weight, db)
         IN  search' = [search EXCEPT !.pc = "tool_return", !.db = db,
                                      !.queries = @ + 1,
                                      !.raised = res.raised, !.rows = res.rows]
    /\ UNCHANGED <<chatVars, toolVars, rate, pool, n8n, apiVars>>

\* hybrid_search_tool returns the rows as ChunkResults; an exception of the
\* query it lets through or answers with no results.
HybridSearchToolReturn ==
    /\ search.pc = "tool_return"
    /\ \E absorbs \in BOOLEAN :
         LET next_pc == IF search.via = "endpoint" THEN "respond" ELSE "done" IN
         IF search.raised = None
         THEN /\ ~absorbs
              /\ search' = [search EXCEPT
                      !.pc = next_pc,
                      !.results = [i \in 1..Len(search.rows) |->
                                      ChunkResult(search.rows[i])]]
         ELSE search' = [search EXCEPT !.pc = next_pc, !.absorbed = absorbs]
    /\ UNCHANGED <<chatVars, toolVars, rate, pool, n8n, apiVars>>

\* search_hybrid: the SearchResponse, or HTTPException(500) from its except
\* clause.
SearchHybridRespond ==
    /\ search.pc = "respond"
    /\ search' = [search EXCEPT
            !.pc = "done",
            !.status = IF search.raised # None /\ ~search.absorbed THEN 500 ELSE 200]
    /\ UNCHANGED <<chatVars, toolVars, rate, pool, n8n, apiVars>>

SpecSearch ==
    InitSearch /\ [][\/ SearchRequestValidate
                     \/ HybridSearchQuery
                     \/ HybridSearchToolReturn
                     \/ SearchHybridRespond]_vars

\* ------------------------------------------------- check_rate_limit calls
\* The calls are made one at a time, each with the limit and the window
\* the behaviour started with.
InitRate ==
    /\ ChatIdle
    /\ ToolsIdle
    /\ search = IdleSearch
    /\ pool = IdlePool
    /\ n8n = IdleN8n
    /\ ApiIdle
    /\ \E limit \in 1..MaxRateLimit, window \in 1..MaxRateWindow :
         rate = [IdleRate EXCEPT !.limit = limit, !.window = window]

\* time.time() advances.
RateTick ==
    /\ rate.now < MaxRateTime
    /\ rate' = [rate EXCEPT !.now = @ + 1]
    /\ UNCHANGED <<chatVars, toolVars, search, pool, n8n, apiVars>>

CheckRateLimit(identifier) ==
    /\ Len(rate.calls) < MaxRateCalls
    /\ LET res == check_rate_limit(rate.rate_limit_store, identifier,
                                    rate.limit, rate.window, rate.now)
       IN  rate' = [rate EXCEPT
                       !.rate_limit_store = res.store,
                       !.calls = Append(@, [identifier |-> identifier,
                                            time |-> rate.now,
                                            answer |-> res.answer])]
    /\ UNCHANGED <<chatVars, toolVars, search, pool, n8n, apiVars>>

SpecRate ==
    InitRate /\ [][\/ RateTick
                   \/ \E identifier \in Identifiers : CheckRateLimit(identifier)]_vars

\* ------------------------------------------------------ db_pool checkouts
InitPool ==
    /\ ChatIdle
    /\ ToolsIdle
    /\ search = IdleSearch
    /\ rate = IdleRate
    /\ pool = IdlePool
    /\ n8n = IdleN8n
    /\ ApiIdle

\* async with db_pool.acquire() as conn, up to its first suspension: with
\* self.pool set the pool hands out a connection; without, acquire calls
\* initialize, which tests self.pool again and awaits asyncpg.create_pool.
PoolAcquire(c, op) ==
    /\ pool.conns[c].pc = "free"
    /\ pool' = [pool EXCEPT
                   !.conns[c] = [op |-> op, queries |-> 0,
                                 pc |-> IF pool.created THEN "held" ELSE "creating"]]
    /\ UNCHANGED <<chatVars, toolVars, search, rate, n8n, apiVars>>

\* db_pool.initialize() called on its own (initialize_database): nothing to
\* do with self.pool set; without, it awaits asyncpg.create_pool.
PoolInitialize(c) ==
    /\ pool.conns[c].pc = "free"
    /\ ~pool.created
    /\ pool' = [pool EXCEPT
                   !.conns[c] = [op |-> "initialize", queries |-> 0, pc |-> "creating"]]
    /\ UNCHANGED <<chatVars, toolVars, search, rate, n8n, apiVars>>

\* asyncpg.create_pool returns to a task suspended in initialize: the new
\* pool is assigned to self.pool, whatever self.pool holds by now; acquire
\* then checks a connection out of self.pool.
PoolCreated(c) ==
    /\ pool.conns[c].pc = "creating"
    /\ pool' = [pool EXCEPT
                   !.created = TRUE,
                   !.made = @ + 1,
                   !.overwritten = @ \/ pool.created,
                   !.conns[c] = IF pool.conns[c].op = "initialize" THEN FreeConn
                                ELSE [pool.conns[c] EXCEPT !.pc = "held"]]
    /\ UNCHANGED <<chatVars, toolVars, search, rate, n8n, apiVars>>

\* db_pool.close(): self.pool is closed, once its connections are back, and
\* set to None.
PoolClose ==
    /\ pool.created
    /\ \A c \in 1..MaxConns : pool.conns[c].pc \in {"free", "creating"}
    /\ pool' = [pool EXCEPT !.created = FALSE, !.made = 0]
    /\ UNCHANGED <<chatVars, toolVars, search, rate, n8n, apiVars>>

\* await conn.fetch / fetchrow / fetchval / execute: the next query of the
\* block, on the connection the block holds.
PoolQuery(c) ==
    /\ pool.conns[c].pc = "held"
    /\ \E outcome \in {"ok", "no_row", "fail"} :
         LET conn == pool.conns[c]
             queries == conn.queries + 1
         IN  pool' = [pool EXCEPT
                 !.conns[c] = [conn EXCEPT
                     !.queries = queries,
                     !.pc = IF LeavesBlock(conn.op, queries, outcome)
                            THEN "leaving" ELSE "held"]]
    /\ UNCHANGED <<chatVars, toolVars, search, rate, n8n, apiVars>>

\* The block is left: the connection goes back to the pool.
PoolRelease(c) ==
    /\ pool.conns[c].pc = "leaving"
    /\ pool' = [pool EXCEPT !.conns[c] = FreeConn]
    /\ UNCHANGED <<chatVars, toolVars, search, rate, n8n, apiVars>>

SpecPool ==
    InitPool /\ [][\/ \E c \in 1..MaxConns :
                        \/ \E op \in DOMAIN PoolOperations : PoolAcquire(c, op)
                        \/ PoolInitialize(c)
                        \/ PoolCreated(c)
                        \/ PoolQuery(c)
                        \/ PoolRelease(c)
                     \/ PoolClose]_vars

\* ------------------------------------------------------- POST /n8n/chat
\* A request that passed verify_n8n_api_key and validate_n8n_request, with
\* a JSON object as its body.
InitN8n ==
    /\ ChatIdle
    /\ ToolsIdle
    /\ search = IdleSearch
    /\ rate = IdleRate
    /\ pool = IdlePool
    /\ ApiIdle
    /\ \E body \in N8nBodies : n8n = [IdleN8n EXCEPT !.pc = "received", !.body = body]

\* The handler starts: body = sanitize_input(body); the message is
\* extracted; without one the request is answered 400.
N8nExtract ==
    /\ n8n.pc = "received"
    /\ LET body == sanitize_input(n8n.body)
           message == n8n_message(body)
       IN  n8n' = IF Falsy(message)
                  THEN [n8n EXCEPT !.pc = "done", !.status = 400,
                                   !.started_at = clock,
                                   !.answer = "No message found"]
                  ELSE [n8n EXCEPT !.message = message,
                                   !.started_at = clock,
                                   !.session_id = body.sessionId,
                                   !.pc = IF body.sessionId = Missing
                                          THEN "create_session" ELSE "execute"]
    /\ UNCHANGED <<chatVars, toolVars, search, rate, pool, apiVars>>

\* session_id = await create_session(...); what it raises the handler's
\* except Exception answers with an error body.
N8nCreateSession ==
    /\ n8n.pc = "create_session"
    /\ \E db \in DbOutcomes :
         IF db = "fail"
         THEN /\ n8n' = [n8n EXCEPT !.pc = "done", !.status = 200, !.answer = "error"]
              /\ UNCHANGED sessions
         ELSE /\ InsertSession(None)
              /\ n8n' = [n8n EXCEPT !.pc = "execute", !.session_id = NewSessionId,
                                    !.created = TRUE]
    /\ UNCHANGED <<clock, messages, turn, toolVars, search, rate, pool, apiVars>>

\* response, tools_used = await execute_agent(message, session_id, ...):
\* it returns, or raises into the handler's except Exception.
N8nExecute ==
    /\ n8n.pc = "execute"
    /\ \E outcome \in {"returned", "raised"} :
         n8n' = [n8n EXCEPT
                    !.pc = "done", !.status = 200,
                    !.executed = Append(@, [message |-> n8n.message,
                                            session_id |-> n8n.session_id]),
                    !.answer = IF outcome = "returned" THEN "response" ELSE "error"]
    /\ UNCHANGED <<chatVars, toolVars, search, rate, pool, apiVars>>

SpecN8n == InitN8n /\ [][N8nExtract \/ N8nCreateSession \/ N8nExecute]_vars

\* ------------------------------------- POST /n8n/chat, the turn step by step
\* A request whose message is in a top-level field; the session it names,
\* if it names one, is stored and may have expired when the handler starts.
InitN8nTurn ==
    /\ ChatIdle
    /\ ToolsIdle
    /\ search = IdleSearch
    /\ rate = IdleRate
    /\ pool = IdlePool
    /\ ApiIdle
    /\ \E body \in N8nBodies :
         /\ \A key \in {"data", "body", "input"} : body[key].kind = "missing"
         /\ n8n = [IdleN8n EXCEPT !.pc = "received", !.body = body]

\* await execute_agent(message, session_id, user_id, save_conversation=True):
\* the call; execute_agent is given the session id as the handler holds it.
N8nCallExecuteAgent ==
    /\ n8n.pc = "execute"
    /\ turn[1].pc = "idle"
    /\ Set(1, [IdleTurn EXCEPT !.endpoint = "n8n", !.message = <<n8n.message>>,
                               !.sid = n8n.session_id,
                               !.pc = "lookup_workspace", !.exec = "running"])
    /\ n8n' = [n8n EXCEPT !.pc = "execute_agent",
                          !.executed = Append(@, [message |-> n8n.message,
                                                  session_id |-> n8n.session_id])]
    /\ UNCHANGED <<clock, sessions, messages, toolVars, search, rate, pool, apiVars>>

\* execute_agent has returned or raised: the response, or the error body.
N8nReturn ==
    /\ n8n.pc = "execute_agent"
    /\ turn[1].pc = "done"
    /\ n8n' = [n8n EXCEPT !.pc = "done", !.status = 200,
                          !.answer = IF turn[1].exec = "returned" THEN "response"
                                     ELSE "error"]
    /\ UNCHANGED <<chatVars, toolVars, search, rate, pool, apiVars>>

SpecN8nTurn ==
    InitN8nTurn /\ [][\/ Tick
                      \/ N8nExtract
                      \/ N8nCreateSession
                      \/ N8nCallExecuteAgent
                      \/ LookupWorkspace(1)
                      \/ GetContext(1)
                      \/ RunAgent(1)
                      \/ SaveUser(1)
                      \/ SaveAssistant(1)
                      \/ N8nReturn]_vars

\* ------------------------------------------------- requests of the /v1 router
\* A request arrives once the one before it is answered. The path names a
\* workspace or an organization, stored or not, and for the agent endpoints
\* an agent, stored or not; a PATCH carries updates or none.
TenantRequest ==
    /\ tenant.req.pc \in {"idle", "done"}
    /\ tenant.served < MaxTenantRequests
    /\ \E op \in TenantOps.agent \cup TenantOps.create,
          org_id \in {None, "o1", "o0"},
          workspace_id \in {None, "w1", "W1", "w2", "w0"},
          agent_id \in {None, "a1", "a2", "a0"},
          updates \in {{}, {"name"}} :
         /\ (org_id # None) <=> (op = "create_workspace_endpoint")
         /\ (workspace_id # None) <=> (op # "create_workspace_endpoint")
         /\ (agent_id # None) <=> (op \in TenantOps.agent)
         /\ updates # {} => op = "update_agent_endpoint"
         /\ tenant' = [tenant EXCEPT
                 !.served = @ + 1,
                 !.agents_before = tenant.agents,
                 !.req = [IdleRequest EXCEPT
                             !.op = op, !.org_id = org_id,
                             !.workspace_id = workspace_id, !.agent_id = agent_id,
                             !.updates = updates,
                             !.pc = IF op \in TenantOps.agent THEN "get_agent"
                                    ELSE "verify_parent"]]
    /\ UNCHANGED <<chatVars, toolVars, search, rate, pool, n8n, oai, san>>

\* get_agent_endpoint, update_agent_endpoint, delete_agent_endpoint up to
\* the tests on the agent: 404 without a row, 403 for another workspace.
AgentLookup ==
    /\ tenant.req.pc = "get_agent"
    /\ \E db \in DbOutcomes :
         LET r == tenant.req
             agent == get_agent(tenant.agents, r.agent_id)
         IN  tenant' = [tenant EXCEPT !.req =
                 IF db = "fail"
                 THEN [r EXCEPT !.pc = "done", !.status = 500, !.faults = {"db"}]
                 ELSE IF ~agent.found
                 THEN [r EXCEPT !.pc = "done", !.status = 404,
                                !.detail = <<"Agent not found">>]
                 ELSE IF ~agent_in_workspace(agent, r.workspace_id)
                 THEN [r EXCEPT !.pc = "done", !.status = 403,
                                !.detail = <<"Agent does not belong to this workspace">>]
                 ELSE IF r.op = "get_agent_endpoint"
                         \/ (r.op = "update_agent_endpoint" /\ r.updates = {})
                 THEN [r EXCEPT !.pc = "done", !.status = 200, !.agent = agent]
                 ELSE [r EXCEPT !.pc = IF r.op = "update_agent_endpoint"
                                       THEN "update_agent" ELSE "delete_agent"]]
    /\ UNCHANGED <<chatVars, toolVars, search, rate, pool, n8n, oai, san>>

\* update_agent(agent_id, updates), then get_agent for the response.
AgentUpdate ==
    /\ tenant.req.pc = "update_agent"
    /\ \E db \in DbOutcomes, refetch \in DbOutcomes :
         LET r == tenant.req
             id == uuid_text(r.agent_id)
             updated == [tenant.agents EXCEPT ![id].name = "n1"]
         IN  IF db = "fail"
             THEN /\ refetch = "ok"
                  /\ tenant' = [tenant EXCEPT
                         !.req = [r EXCEPT !.pc = "done", !.status = 500,
                                           !.faults = {"db"}]]
             ELSE tenant' = [tenant EXCEPT
                     !.agents = updated,
                     !.req = IF refetch = "fail"
                             THEN [r EXCEPT !.pc = "done", !.status = 500,
                                            !.faults = {"db"}]
                             ELSE [r EXCEPT !.pc = "done", !.status = 200,
                                            !.agent = get_agent(updated, r.agent_id)]]
    /\ UNCHANGED <<chatVars, toolVars, search, rate, pool, n8n, oai, san>>

\* delete_agent(agent_id)
AgentDelete ==
    /\ tenant.req.pc = "delete_agent"
    /\ \E db \in DbOutcomes :
         LET r == tenant.req
             id == uuid_text(r.agent_id)
         IN  IF db = "fail"
             THEN tenant' = [tenant EXCEPT
                     !.req = [r EXCEPT !.pc = "done", !.status = 500,
                                       !.faults = {"db"}]]
             ELSE tenant' = [tenant EXCEPT
                     !.agents = [a \in DOMAIN tenant.agents \ {id} |-> tenant.agents[a]],
                     !.req = [r EXCEPT !.pc = "done", !.status = 200,
                                       !.detail = <<"Agent deleted">>]]
    /\ UNCHANGED <<chatVars, toolVars, search, rate, pool, n8n, oai, san>>

\* The create endpoints verify the parent row inside their try block:
\* raise HTTPException(404, ...) for a missing one.
CreateVerifyParent ==
    /\ tenant.req.pc = "verify_parent"
    /\ \E db \in DbOutcomes :
         LET r == tenant.req
             not_found == IF r.op = "create_workspace_endpoint"
                          THEN "404: Organization not found"
                          ELSE "404: Workspace not found"
             answer(e) == create_endpoint_except(e)
         IN  tenant' = [tenant EXCEPT !.req =
                 IF db = "fail"
                 THEN [r EXCEPT !.pc = "done", !.status = answer("db").status,
                                !.detail = answer("db").detail, !.faults = {"db"}]
                 ELSE IF ~parent_found(tenant, r)
                 THEN [r EXCEPT !.pc = "done", !.status = answer(not_found).status,
                                !.detail = answer(not_found).detail]
                 ELSE [r EXCEPT !.pc = "create"]]
    /\ UNCHANGED <<chatVars, toolVars, search, rate, pool, n8n, oai, san>>

\* create_workspace / create_agent / create_api_key: the INSERT, and the
\* response built from the new row.
CreateRow ==
    /\ tenant.req.pc = "create"
    /\ \E db \in DbOutcomes :
         LET r == tenant.req
             id == "new" \o ToString(tenant.served)
             stored == [r EXCEPT !.pc = "done", !.status = 200]
         IN  IF db = "fail"
             THEN tenant' = [tenant EXCEPT
                     !.req = [r EXCEPT !.pc = "done",
                                       !.status = create_endpoint_except("db").status,
                                       !.detail = create_endpoint_except("db").detail,
                                       !.faults = {"db"}]]
             ELSE IF r.op = "create_workspace_endpoint"
             THEN tenant' = [tenant EXCEPT
                     !.workspaces = [w \in DOMAIN tenant.workspaces \cup {id} |->
                                        IF w = id THEN uuid_text(r.org_id)
                                        ELSE tenant.workspaces[w]],
                     !.req = stored]
             ELSE IF r.op = "create_agent_endpoint"
             THEN tenant' = [tenant EXCEPT
                     !.agents = [a \in DOMAIN tenant.agents \cup {id} |->
                                    IF a = id
                                    THEN [workspace_id |-> uuid_text(r.workspace_id),
                                          name |-> "n0"]
                                    ELSE tenant.agents[a]],
                     !.req = stored]
             ELSE tenant' = [tenant EXCEPT
                     !.api_keys = @ \cup {[id |-> id,
                                           workspace_id |-> uuid_text(r.workspace_id)]},
                     !.req = stored]
    /\ UNCHANGED <<chatVars, toolVars, search, rate, pool, n8n, oai, san>>

SpecTenant ==
    Init /\ [][\/ TenantRequest
               \/ AgentLookup
               \/ AgentUpdate
               \/ AgentDelete
               \/ CreateVerifyParent
               \/ CreateRow]_vars

\* -------------------------------- POST /v1/chat/completions, stream = true
\* The request passed verify_api_key and convert_openai_to_internal; its
\* model is one of those GET /v1/models lists.
InitOai ==
    /\ ChatIdle
    /\ ToolsIdle
    /\ search = IdleSearch
    /\ rate = IdleRate
    /\ pool = IdlePool
    /\ n8n = IdleN8n
    /\ tenant = IdleTenant
    /\ san = IdleSan
    /\ \E model \in {"riddly-rag", "riddly-rag-vector", "riddly-rag-graph"} :
         oai = [IdleOai EXCEPT !.pc = "start", !.model = model]

\* The first yield of the generator: the chunk with delta {role: assistant}.
OaiStart ==
    /\ oai.pc = "start"
    /\ oai' = [oai EXCEPT
                  !.pc = "agent",
                  !.lines = Append(@, OpenAIStreamResponse(oai.model,
                                          {<<"role", "assistant">>}, None))]
    /\ UNCHANGED <<chatVars, toolVars, search, rate, pool, n8n, tenant, san>>

\* rag_agent.iter: the content of a text part's start or a text delta.
OaiText ==
    /\ oai.pc = "agent"
    /\ Len(oai.full_response) < MaxChunks
    /\ \E event \in {"PartStartEvent", "PartDeltaEvent"} :
         LET delta_content == event \o ToString(Len(oai.full_response) + 1)
         IN  oai' = [oai EXCEPT
                        !.lines = Append(@, OpenAIStreamResponse(oai.model,
                                                {<<"content", delta_content>>}, None)),
                        !.full_response = Append(@, delta_content)]
    /\ UNCHANGED <<chatVars, toolVars, search, rate, pool, n8n, tenant, san>>

\* The run ends: the final chunk, with an empty delta and finish_reason
\* "stop"; or it raises and the except clause yields its chunk.
OaiRunEnds ==
    /\ oai.pc = "agent"
    /\ \E outcome \in {"returns", "raises"} :
         oai' = [oai EXCEPT
                    !.pc = "yield_done",
                    !.lines = Append(@, IF outcome = "returns"
                                        THEN OpenAIStreamResponse(oai.model, {}, "stop")
                                        ELSE openai_error_chunk(oai.model, "agent"))]
    /\ UNCHANGED <<chatVars, toolVars, search, rate, pool, n8n, tenant, san>>

\* yield "data: [DONE]\n\n", after the final chunk or the error chunk.
OaiDone ==
    /\ oai.pc = "yield_done"
    /\ oai' = [oai EXCEPT
                  !.pc = "done",
                  !.lines = Append(@, [data |-> "[DONE]", model |-> None,
                                       delta |-> {}, finish_reason |-> None])]
    /\ UNCHANGED <<chatVars, toolVars, search, rate, pool, n8n, tenant, san>>

\* The caller goes away: the generator is cancelled where it is suspended.
OaiDisconnect ==
    /\ oai.pc \in {"agent", "yield_done"}
    /\ oai' = [oai EXCEPT !.pc = "cancelled"]
    /\ UNCHANGED <<chatVars, toolVars, search, rate, pool, n8n, tenant, san>>

SpecOai ==
    InitOai /\ [][OaiStart \/ OaiText \/ OaiRunEnds \/ OaiDone \/ OaiDisconnect]_vars

\* ------------------------------------------------- sanitize_input on a str
\* The str is made of up to MaxPieces pieces: patterns in lower and in upper
\* case, parts of a pattern, a blank, harmless text.
InitSan ==
    /\ ChatIdle
    /\ ToolsIdle
    /\ search = IdleSearch
    /\ rate = IdleRate
    /\ pool = IdlePool
    /\ n8n = IdleN8n
    /\ tenant = IdleTenant
    /\ oai = IdleOai
    /\ \E n \in 0..MaxPieces :
         \E pieces \in [1..n -> {<<"<", "s", "c", "r">>,
                   <<"i", "p", "t">>,
                   <<"<", "s", "c", "r", "i", "p", "t">>,
                   <<"<", "S", "C", "R", "I", "P", "T">>,
                   <<"<", "l", "i", "n", "k">>,
                   <<" ">>,
                   <<"h", "i">>}] :
            LET RECURSIVE joined(_)
                joined(k) == IF k = 0 THEN <<>> ELSE joined(k - 1) \o pieces[k]
            IN  san = [IdleSan EXCEPT !.pc = "called", !.data = joined(n)]

\* sanitize_input is called on the str, and then on what it returned.
SanitizeCall ==
    /\ san.pc \in {"called", "returned"}
    /\ san' = IF san.pc = "called"
              THEN [san EXCEPT !.pc = "returned", !.once = sanitize_text(san.data)]
              ELSE [san EXCEPT !.pc = "done", !.twice = sanitize_text(san.once)]
    /\ UNCHANGED <<chatVars, toolVars, search, rate, pool, n8n, tenant, oai>>

SpecSan == InitSan /\ [][SanitizeCall]_vars

\* ------------------------------------------------------------- properties
\* The messages turn t appended to the ledger, in order.
Appended(t) == SelectSeq(messages, LAMBDA m : m.turn = t)

Roles(rows) == [i \in 1..Len(rows) |-> rows[i].role]

\* The handler of turn r ran a turn: execute_agent was entered or the
\* generator yielded its first event.
TurnRan(r) == r.exec # "none" \/ r.events # <<>>

Authenticated(r) == r.pc \notin {"idle", "retired"} /\ r.message # <<>>

\* C1: every turn run with persistence enabled, whether the agent returns or
\* raises, appends exactly one user message and then exactly one assistant
\* message to its session. Stated for the turns in which no ledger call
\* failed, so that only the agent's outcome varies.
C1_TurnAppendsUserThenAssistant ==
    \A t \in Turns :
        LET r == turn[t] IN
        (r.pc = "done" /\ TurnRan(r) /\ "db" \notin r.faults)
            => /\ Roles(Appended(t)) = <<"user", "assistant">>
               /\ Appended(t)[1].content = r.message
               /\ \A i \in 1..Len(Appended(t)) : Appended(t)[i].session_id = r.sid

\* The events of one type in an event sequence.
Positions(ev, types) == {i \in 1..Len(ev) : ev[i].type \in types}

\* A prefix of: session, text*, tools?, (end | error).
StreamShapePrefix(ev, sid) ==
    /\ Positions(ev, {"session"}) = (IF ev = <<>> THEN {} ELSE {1})
    /\ ev # <<>> => ev[1].session_id = sid
    /\ Cardinality(Positions(ev, {"tools"})) <= 1
    /\ \A i \in Positions(ev, {"text"}), j \in Positions(ev, {"tools"}) : i < j
    /\ Cardinality(Positions(ev, {"end", "error"})) <= 1
    /\ Positions(ev, {"end", "error"}) \subseteq {Len(ev)}
    /\ \A i \in 1..Len(ev) : ev[i].type \in {"session", "text", "tools", "end", "error"}

StreamShapeComplete(ev, sid) ==
    /\ StreamShapePrefix(ev, sid)
    /\ Positions(ev, {"end", "error"}) = {Len(ev)}
    /\ Len(ev) >= 2

\* C2 as stated: the events of every streamed turn that is over are one
\* session event, text events, at most one tools event after them, and
\* exactly one terminal event, end or error.
C2_Original_EveryStreamEndsWithTerminal ==
    \A t \in Turns :
        LET r == turn[t] IN
        (r.pc \in Terminal /\ r.events # <<>>) => StreamShapeComplete(r.events, r.sid)

\* C2 as amended: at every moment the events emitted are a prefix of that
\* shape; a stream whose generator ran to its end has the whole shape; a
\* stream whose caller disconnected has no terminal event.
C2_StreamShape ==
    \A t \in Turns :
        LET r == turn[t] IN
        /\ StreamShapePrefix(r.events, r.sid)
        /\ (r.pc = "done" /\ r.events # <<>>) => StreamShapeComplete(r.events, r.sid)
        /\ r.pc = "cancelled" => Positions(r.events, {"end", "error"}) = {}
        /\ r.endpoint # "stream" => r.events = <<>>

\* A stream that ran to its end with every kind of event.
C2_Witness ==
    \E t \in Turns :
        LET r == turn[t] IN
        /\ r.pc = "done"
        /\ Len(r.events) = MaxChunks + 3
        /\ r.events[Len(r.events)].type = "end"
        /\ r.events[Len(r.events) - 1].type = "tools"

\* The min(n, 6) most recent messages of a log of n, oldest first, each
\* as "role: content".
RenderedRecent(log) ==
    LET n == Len(log)
        k == IF n < 6 THEN n ELSE 6
    IN  [i \in 1..k |-> <<log[n - k + i].role, ": ", log[n - k + i].content>>]

\* C3: the context rendered into the prompt is the min(n, 6) most recent
\* messages of the n the session's log holds when the turn reads it, oldest
\* first, each as "role: content".
C3_ContextIsSixMostRecent ==
    \A t \in Turns :
        LET r == turn[t] IN
        r.prompt.question # <<>> => r.prompt.previous = RenderedRecent(r.seen)

\* A stored session that is not expired.
SessionUsable(id) == id \in DOMAIN sessions /\ clock < sessions[id].expires_at

C5_ExecuteAgentNeverRaises ==
    \A t \in Turns :
        LET r == turn[t] IN
        /\ r.exec # "raised"
        /\ (r.exec = "returned" /\ r.faults # {}) =>
              /\ r.body.message[1] = "I encountered an error while processing your request: "
              /\ r.body.tools_used = <<>>
              /\ Appended(t)[Len(Appended(t))].content = r.body.message

\* C6: when the agent produced an answer and a ledger write of the turn then
\* fails, execute_agent still returns that answer and its tool calls: no
\* error text replaces them and no exception reaches the caller.
C6_AnswerSurvivesPersistenceFailure ==
    \A t \in Turns :
        LET r == turn[t] IN
        (r.endpoint = "chat" /\ r.pc = "done" /\ r.answered) =>
            /\ r.exec = "returned"
            /\ r.body.message = r.answer
            /\ r.body.tools_used = r.answer_tools

\* C7: a streamed turn whose caller disconnected after the user message was
\* saved has its assistant message saved too: the text accumulated so far,
\* tagged as streamed.
C7_CancelledStreamKeepsPartialAnswer ==
    \A t \in Turns :
        LET r == turn[t] IN
        (r.pc = "cancelled" /\ \E i \in 1..Len(Appended(t)) : Appended(t)[i].role = "user")
            => \E i \in 1..Len(Appended(t)) :
                   /\ Appended(t)[i].role = "assistant"
                   /\ Appended(t)[i].content = r.full_response
                   /\ "streamed" \in Appended(t)[i].metadata

\* C8: an authenticated /chat or /chat/stream request whose turn meets a
\* storage or agent failure is answered 2xx, never 5xx.
C8_CoreFailuresAnswered2xx ==
    \A t \in Turns :
        LET r == turn[t] IN
        (r.pc = "done" /\ Authenticated(r) /\ r.faults \subseteq {"db", "agent"})
            => r.status = 200

\* C9: with API_KEY_REQUIRED true and API_KEY configured, a request without
\* credentials or with credentials other than API_KEY is answered 401 and
\* its handler never runs; only credentials equal to API_KEY reach it.
C9_BadCredentialsAnswered401 ==
    (API_KEY_REQUIRED /\ API_KEY # None) =>
        \A t \in Turns :
            LET r == turn[t] IN
            r.pc \notin {"idle", "retired"} =>
                IF r.credentials = API_KEY
                THEN r.status # 401
                ELSE /\ r.status = 401
                     /\ ~Authenticated(r) /\ ~TurnRan(r) /\ r.sid = None
                     /\ Appended(t) = <<>>

\* C10: the workspace of a turn's AgentDependencies is the workspace of the
\* session the turn's messages are persisted to.
C10_DepsWorkspaceIsSessionWorkspace ==
    \A t \in Turns :
        LET r == turn[t] IN
        r.deps.made => r.deps.workspace_id = SessionWorkspace(r.sid)

\* What the run's tool-call parts are said to yield: the parts whose
\* arguments can be parsed, in order, each with its name, its arguments
\* decoded from the JSON text or taken from the native mapping, and its id.
ClaimedArgs(part) ==
    IF part.args.type = "str" THEN json_loads(part.args.value).value
    ELSE part.args.value

ClaimedToolCalls(parts) ==
    LET kept == SelectSeq(parts, LAMBDA p : p.part_kind = "ToolCallPart"
                                            /\ DenotesMapping(p.args))
    IN  [i \in 1..Len(kept) |->
            [tool_name |-> kept[i].tool_name, args |-> ClaimedArgs(kept[i]),
             tool_call_id |-> IF kept[i].tool_call_id # "" THEN kept[i].tool_call_id
                              ELSE None]]

\* C11: extract_tool_calls returns, in order of occurrence, one ToolCall
\* per tool-call part of the run, with the part's name, decoded arguments
\* and call id; a tool-call part whose arguments cannot be parsed is left
\* out of the list.
C11_UnparsablePartsLeftOut ==
    extracted => tools_out = ClaimedToolCalls(run_parts)

\* The signals of chunk c in the running call, a missing one taken as 0.
SignalV(c) == IF search.cands[c].v = Absent THEN 0 ELSE search.cands[c].v

SignalT(c) == IF search.cands[c].t = Absent THEN 0 ELSE search.cands[c].t

\* (1 - text_weight) * v + text_weight * t, clamped to [0,1], in units of
\* 1 / (Scale * Scale).
WeightedSum(c) ==
    LET x == (Scale - search.text_weight) * SignalV(c) + search.text_weight * SignalT(c)
    IN  IF x < 0 THEN 0 ELSE IF x > Scale * Scale THEN Scale * Scale ELSE x

C13_ResultsInRankOrder ==
    /\ \A i, j \in 1..Len(search.rows) :
          i < j =>
            LET a == search.rows[i]
                b == search.rows[j]
            IN  \/ a.combined_score > b.combined_score
                \/ a.combined_score = b.combined_score
                     /\ a.vector_similarity > b.vector_similarity
                \/ a.combined_score = b.combined_score
                     /\ a.vector_similarity = b.vector_similarity
                     /\ a.chunk_id < b.chunk_id
    /\ \A i \in 1..Len(search.rows) : search.rows[i].vector_similarity
                                         = SignalV(search.rows[i].chunk_id)
    /\ search.results # <<>> =>
          /\ Len(search.results) = Len(search.rows)
          /\ \A i \in 1..Len(search.rows) :
                search.results[i].chunk_id = search.rows[i].chunk_id

\* A finished call whose list holds two chunks of equal combined score, the
\* one with the larger v and the larger identifier first, and two chunks
\* equal in both.
C13_Witness ==
    /\ search.pc = "done"
    /\ Len(search.results) = 3
    /\ \E i, j \in 1..3 :
         /\ i < j
         /\ search.rows[i].combined_score = search.rows[j].combined_score
         /\ search.rows[i].vector_similarity > search.rows[j].vector_similarity
         /\ search.rows[i].chunk_id > search.rows[j].chunk_id
    /\ \E i, j \in 1..3 :
         /\ i < j
         /\ search.rows[i].combined_score = search.rows[j].combined_score
         /\ search.rows[i].vector_similarity = search.rows[j].vector_similarity

\* The call's inputs break the contract of the ranker.
OutOfContract ==
    search.text_weight < 0 \/ search.text_weight > Scale \/ search.limit < 1

\* C14: a search call whose text_weight lies outside [0,1] or whose limit is
\* 0 or negative is rejected as a client error before any storage query is
\* issued, and returns no results.
C14_OutOfContractRejectedBeforeQuery ==
    (search.pc \notin {"idle", "request"} /\ OutOfContract) =>
        /\ search.queries = 0
        /\ search.results = <<>>
        /\ search.pc = "done" =>
              search.status = 422 \/ search.raised = "InvalidParameter"

\* The chunks in the vector candidate set or in the keyword candidate set.
InEitherSet == {c \in Chunks : search.cands[c].v # Absent \/ search.cands[c].t # Absent}

ReturnedChunks == {search.rows[i].chunk_id : i \in 1..Len(search.rows)}

\* C15: a chunk with one of the two signals is a candidate, ranked with the
\* missing score taken as 0; a chunk in neither candidate set never
\* appears. Every candidate is returned unless the limit cuts the list.
C15_OneSignalSuffices ==
    (search.pc \in {"tool_return", "respond", "done"} /\ search.raised = None
       /\ search.queries > 0) =>
        /\ ReturnedChunks \subseteq InEitherSet
        /\ Len(search.rows) < search.limit => ReturnedChunks = InEitherSet
        /\ Len(search.rows) = Cardinality(ReturnedChunks)
        /\ Cardinality(InEitherSet) >= search.limit => Len(search.rows) = search.limit
        /\ \A i \in 1..Len(search.rows) :
              LET row == search.rows[i] IN
              /\ search.cands[row.chunk_id].v = Absent => row.vector_similarity = 0
              /\ search.cands[row.chunk_id].t = Absent => row.text_similarity = 0
              /\ row.combined_score = WeightedSum(row.chunk_id)

\* A finished call that returned a chunk with a keyword match only and a
\* chunk with a vector match only, and left out the chunk with neither.
C15_Witness ==
    /\ search.pc = "done"
    /\ search.limit = 3
    /\ Len(search.results) = 2
    /\ \E c \in ReturnedChunks : search.cands[c] = [v |-> Absent, t |-> 8]
    /\ \E c \in ReturnedChunks : search.cands[c] = [v |-> 2, t |-> Absent]
    /\ \E c \in Chunks \ ReturnedChunks : search.cands[c] = [v |-> Absent, t |-> Absent]

\* The keyword candidates, and a list of ChunkResults that holds them
\* ranked by text relevance alone, cut at the limit.
KeywordCandidates == {c \in Chunks : search.cands[c].t # Absent}

RankedByTextAlone(results) ==
    LET ids == {results[i].chunk_id : i \in 1..Len(results)} IN
    /\ ids \subseteq KeywordCandidates
    /\ Len(results) = Cardinality(ids)
    /\ Len(results) = IF Cardinality(KeywordCandidates) < search.limit
                      THEN Cardinality(KeywordCandidates) ELSE search.limit
    /\ \A i, j \in 1..Len(results) :
          i < j => search.cands[results[i].chunk_id].t >= search.cands[results[j].chunk_id].t
    /\ \A c \in ids, d \in KeywordCandidates \ ids :
          search.cands[c].t >= search.cands[d].t

\* C16: when the vector search fails, a hybrid search call with in-contract
\* inputs returns the keyword candidates ranked by text relevance alone,
\* and POST /search/hybrid answers with them, not with an error.
C16_VectorFailureDegradesToText ==
    (search.pc = "done" /\ search.db = "fail" /\ ~OutOfContract) =>
        /\ RankedByTextAlone(search.results)
        /\ search.via = "endpoint" => search.status = 200

\* The calls of an identifier answered True at a time in lo..hi, earlier
\* than call number before.
AcceptedIn(identifier, lo, hi, before) ==
    {i \in 1..Len(rate.calls) :
        /\ i < before
        /\ rate.calls[i].identifier = identifier
        /\ rate.calls[i].answer
        /\ rate.calls[i].time >= lo /\ rate.calls[i].time <= hi}

\* C17: for every identifier the calls answered True inside any interval of
\* window seconds (window successive clock readings) are at most limit; a
\* call is answered False exactly when limit accepted calls of its
\* identifier lie within the last window seconds, so that it is accepted
\* again once the oldest of them has left the window.
C17_SlidingWindowLimit ==
    /\ \A identifier \in Identifiers, a \in 0..MaxRateTime :
          Cardinality(AcceptedIn(identifier, a, a + rate.window - 1,
                                 Len(rate.calls) + 1)) <= rate.limit
    /\ \A i \in 1..Len(rate.calls) :
          LET call == rate.calls[i] IN
          call.answer = FALSE <=>
              Cardinality(AcceptedIn(call.identifier, call.time - rate.window + 1,
                                     call.time, i)) = rate.limit

\* An identifier was accepted limit times, then refused, then accepted
\* again after the window had passed, while another identifier was served.
C17_Witness ==
    /\ Len(rate.calls) = 4
    /\ rate.limit = 1
    /\ rate.window = 2
    /\ rate.calls[1] = [identifier |-> "ip:a", time |-> 0, answer |-> TRUE]
    /\ rate.calls[2] = [identifier |-> "ip:a", time |-> 1, answer |-> FALSE]
    /\ rate.calls[3] = [identifier |-> "ip:b", time |-> 1, answer |-> TRUE]
    /\ rate.calls[4] = [identifier |-> "ip:a", time |-> 2, answer |-> TRUE]

\* C18: every started turn reaches DONE or FAILED once each external call
\* returns, fails or times out: a turn that is not over can take a step (it
\* waits on nothing but a call that ends), a /chat turn is over only with
\* execute_agent returned, its answer or its error text in the response,
\* and a generator that ran to its end has emitted its terminal event.
C18_TurnEndsDoneOrFailed ==
    \A t \in Turns :
        LET r == turn[t] IN
        /\ (r.pc \notin Terminal \cup {"idle", "retired"}) => ENABLED TurnStep(t)
        /\ (r.pc \in Terminal /\ r.exec # "none") =>
              /\ r.exec = "returned"
              /\ r.status = 200
        /\ (r.pc = "done" /\ r.events # <<>>) =>
              r.events[Len(r.events)].type \in {"end", "error"}

\* C19: every operation that checks a connection out of db_pool issues at
\* most one query on it before it releases it.
C19_OneQueryPerCheckout ==
    \A c \in 1..MaxConns : pool.conns[c].queries <= 1

\* The value a field of the request has for the handler: the string it
\* holds without its surrounding white space.
Held(value) == IF value = " " THEN "" ELSE value

\* The message of a request as the claim names it: the first of the
\* top-level fields chatInput, message, question that is present, else
\* chatInput or message of the first of data, body, input that is an object
\* holding one of them.
ClaimedN8nMessage(body) ==
    LET top == SelectSeq(<<body.chatInput, body.message, body.question>>,
                         LAMBDA x : x # Missing)
        inner == SelectSeq(<<body.data, body.body, body.input>>,
                           LAMBDA n : n.kind = "dict"
                                      /\ (n.chatInput # Missing \/ n.message # Missing))
    IN  IF top # <<>> THEN Held(top[1])
        ELSE IF inner = <<>> THEN ""
        ELSE IF inner[1].chatInput # Missing THEN Held(inner[1].chatInput)
        ELSE Held(inner[1].message)

C21_NoAppendToExpiredSession ==
    \A i \in 1..Len(messages) :
        messages[i].turn = 1 =>
            /\ messages[i].session_id \in DOMAIN sessions
            /\ sessions[messages[i].session_id].expires_at > n8n.started_at

\* A turn that ran to its end and in which nothing failed.
Completed(r) == r.pc = "done" /\ r.faults = {} /\ TurnRan(r)

\* C22: for any interleaving of concurrent turns on the same session, the
\* message log changes only by appends; each completed turn has contributed
\* exactly its own user message and its own assistant message, the user
\* message before the assistant message; messages of different turns may
\* interleave.
C22_ConcurrentTurnsOnlyAppend ==
    [][/\ Len(messages') >= Len(messages)
       /\ SubSeq(messages', 1, Len(messages)) = messages
       /\ \A t \in ConcurrentTurns :
            Completed(turn'[t]) =>
                LET own == SelectSeq(messages', LAMBDA m : m.turn = t) IN
                /\ Roles(own) = <<"user", "assistant">>
                /\ own[1].content = turn'[t].message
                /\ own[2].content = turn'[t].answer
                /\ \A i \in 1..2 : own[i].session_id = "s1"
      ]_vars

\* Two completed turns whose messages interleave in the log of s1.
C22_Witness ==
    /\ \A t \in ConcurrentTurns : Completed(turn[t])
    /\ Len(messages) = 4
    /\ messages[1].turn = 1 /\ messages[2].turn = 2
    /\ messages[3].turn = 1 /\ messages[4].turn = 2

\* The contents of the text events of an event sequence, in emission order.
TextContents(ev) ==
    LET texts == SelectSeq(ev, LAMBDA e : e.type = "text")
    IN  [i \in 1..Len(texts) |-> texts[i].content]

\* C23: in a streamed turn that has emitted end, the turn has persisted one
\* assistant message, whose content is the concatenation, in emission order,
\* of the contents of the text events sent in the turn; the message is in
\* the ledger in every state in which end has been emitted.
C23_StreamedContentIsPersisted ==
    \A t \in Turns :
        LET r == turn[t]
            own == SelectSeq(messages,
                             LAMBDA m : m.turn = t /\ m.role = "assistant")
        IN  (r.endpoint = "stream" /\ r.events # <<>>
                /\ r.events[Len(r.events)].type = "end")
            => /\ Len(own) = 1
               /\ own[1].content = TextContents(r.events)
               /\ own[1].session_id = r.sid

\* A streamed turn with MaxChunks text events has emitted end.
C23_Witness ==
    /\ turn[1].endpoint = "stream"
    /\ turn[1].pc = "done"
    /\ turn[1].events # <<>>
    /\ turn[1].events[Len(turn[1].events)].type = "end"
    /\ Len(TextContents(turn[1].events)) = MaxChunks
    /\ \E i \in 1..Len(messages) :
         messages[i].turn = 1 /\ messages[i].role = "assistant"
         /\ Len(messages[i].content) = MaxChunks

\* C24: for one DatabasePool at most one connection pool is created between
\* two close() calls, also when several tasks call acquire() or initialize()
\* while self.pool is None; a created pool is never replaced by another one
\* without having been closed.
C24_OnePoolBetweenCloses ==
    pool.made <= 1 /\ ~pool.overwritten

\* Agent a was stored when the request arrived; it belonged to workspace w.
AgentExisted(a) == uuid_text(a) \in DOMAIN tenant.agents_before

AgentBelonged(a, w) ==
    AgentExisted(a) /\ tenant.agents_before[uuid_text(a)].workspace_id = uuid_text(w)

C26_CreateUnderMissingParentIs404 ==
    LET r == tenant.req IN
    (r.op \in TenantOps.create /\ r.pc = "done" /\ r.faults = {}
        /\ ~parent_found(tenant, r))
        => /\ r.status = 404
           /\ DOMAIN tenant.workspaces = {"w1", "w2"}
           /\ tenant.agents = tenant.agents_before
           /\ tenant.api_keys = {}

\* The lines of a stream are chunks of the request's model, the first with
\* delta {role: assistant}, the others carrying content or nothing; a chunk
\* with finish_reason "stop" and the [DONE] line come last, in this order.
OaiShapePrefix(lines, model) ==
    /\ \A i \in 1..Len(lines) :
         /\ lines[i].data = "chunk" =>
                /\ lines[i].model = model
                /\ lines[i].finish_reason \in {None, "stop"}
                /\ (<<"role", "assistant">> \in lines[i].delta) <=> (i = 1)
         /\ lines[i].data = "[DONE]" =>
                i = Len(lines) /\ i > 1 /\ lines[i - 1].finish_reason = "stop"
         /\ lines[i].finish_reason = "stop" =>
                i > 1 /\ (i = Len(lines) \/ (i = Len(lines) - 1
                                               /\ lines[Len(lines)].data = "[DONE]"))
         /\ (i > 1 /\ lines[i].data = "chunk" /\ lines[i].finish_reason = None)
                => \E x \in lines[i].delta : x[1] = "content"

OaiShapeComplete(lines, model) ==
    /\ OaiShapePrefix(lines, model)
    /\ Len(lines) >= 3
    /\ lines[Len(lines)].data = "[DONE]"
    /\ Cardinality({i \in 1..Len(lines) : lines[i].finish_reason = "stop"}) = 1
    /\ Cardinality({i \in 1..Len(lines) : lines[i].data = "[DONE]"}) = 1

\* C27: every OpenAI-compatible stream starts with one chunk whose delta is
\* {role: assistant}, continues with content chunks with finish_reason null
\* and ends, when the run returned and when it raised alike, with exactly
\* one chunk with finish_reason "stop" followed by exactly one [DONE] line;
\* nothing is emitted after [DONE]. At every moment the lines sent are a
\* prefix of this shape.
C27_OpenAIStreamShape ==
    /\ OaiShapePrefix(oai.lines, oai.model)
    /\ oai.pc = "done" => OaiShapeComplete(oai.lines, oai.model)
    /\ oai.pc \notin {"idle", "start"} => oai.lines # <<>>

\* A stream whose run raised after MaxChunks content chunks has ended.
C27_Witness ==
    /\ oai.pc = "done"
    /\ Len(oai.lines) = MaxChunks + 3
    /\ oai.lines[MaxChunks + 2] = openai_error_chunk(oai.model, "agent")

\* The timestamps the store holds for an identifier (none without an entry).
Recorded(store, identifier) ==
    IF identifier \in DOMAIN store THEN store[identifier] ELSE <<>>

\* C28: check_rate_limit(id) never changes the timestamps recorded for an
\* identifier other than id; a call answered False records no new timestamp
\* for id: what it leaves for id are the timestamps it found, in their
\* order, without those older than the window.
C28_RateLimitFrame ==
    [][Len(rate'.calls) = Len(rate.calls) + 1 =>
          LET call == rate'.calls[Len(rate'.calls)]
              old == Recorded(rate.rate_limit_store, call.identifier)
              new == Recorded(rate'.rate_limit_store, call.identifier)
          IN  /\ \A other \in Identifiers \ {call.identifier} :
                   /\ other \in DOMAIN rate'.rate_limit_store
                          <=> other \in DOMAIN rate.rate_limit_store
                   /\ Recorded(rate'.rate_limit_store, other)
                          = Recorded(rate.rate_limit_store, other)
              /\ call.answer = FALSE =>
                   /\ Len(new) <= Len(old)
                   /\ new = SubSeq(old, Len(old) - Len(new) + 1, Len(old))
                   /\ \A i \in 1..(Len(old) - Len(new)) :
                          old[i] <= call.time - rate.window
                   /\ \A i \in 1..Len(new) : new[i] > call.time - rate.window
      ]_vars

\* A call for one identifier was refused while the store held timestamps
\* of the other identifier, and pruned an old timestamp of its own.
C28_Witness ==
    /\ Len(rate.calls) >= 2
    /\ LET call == rate.calls[Len(rate.calls)] IN
         /\ call.answer = FALSE
         /\ \E other \in Identifiers \ {call.identifier} :
                Recorded(rate.rate_limit_store, other) # <<>>
         /\ Len(Recorded(rate.rate_limit_store, call.identifier))
                < Cardinality({i \in 1..Len(rate.calls) :
                                  rate.calls[i].identifier = call.identifier
                                  /\ rate.calls[i].answer})

\* C29: in every turn the conversation context is read before the turn
\* persists anything: the messages read hold none of the turn's own, the
\* lines of the prompt's previous conversation are lines of messages read,
\* none of them the current message, which the prompt holds once, as the
\* current question.
C29_ContextReadBeforePersist ==
    \A t \in Turns :
        LET r == turn[t] IN
        r.prompt.question # <<>> =>
            /\ r.prompt.question = r.message
            /\ \A i \in 1..Len(r.seen) : r.seen[i].turn # t
            /\ \A i \in 1..Len(r.prompt.previous) :
                   /\ \E j \in 1..Len(r.seen) :
                          r.prompt.previous[i]
                              = <<r.seen[j].role, ": ", r.seen[j].content>>
                   /\ r.prompt.previous[i][3] # r.message

\* A finished turn on a session with history: its prompt rendered earlier
\* messages, and its own two messages were persisted afterwards.
C29_Witness ==
    /\ turn[1].pc = "done"
    /\ Len(turn[1].prompt.previous) >= 2
    /\ Roles(Appended(1)) = <<"user", "assistant">>
    /\ Len(messages) = Len(turn[1].seen) + 2

\* The pattern occurs in the str.
Occurs(pattern, str) ==
    \E i \in 1..(Len(str) - Len(pattern) + 1) :
        SubSeq(str, i, i + Len(pattern) - 1) = pattern

\* C30: for every str s, sanitize_input(s) holds no occurrence of a
\* dangerous pattern, in its lower-case or in its upper-case spelling, and
\* sanitize_input(sanitize_input(s)) = sanitize_input(s).
C30_SanitizedAndIdempotent ==
    /\ san.pc \in {"returned", "done"} =>
          \A i \in 1..Len(dangerous_patterns) :
              /\ ~Occurs(dangerous_patterns[i], san.once)
              /\ ~Occurs(upper(dangerous_patterns[i]), san.once)
    /\ san.pc = "done" => san.twice = san.once

====
